---- MODULE Spec2Model ----
(***************************************************************************)
(* Model of package doublebuf (src/doublebuf.go): a DoubleBuffer[T] with   *)
(* two slots a and b, the producer-side pointer back, the consumer-side    *)
(* pointer front, the atomic pending cell next and the capacity-1 channel  *)
(* prev.  One producer thread calls Back, writes through the returned      *)
(* pointer and calls Ready; NumConsumers consumer threads call Front and   *)
(* Next.  Every method is split into the memory accesses it performs, so   *)
(* that the interleavings of concurrent calls are those of the code.       *)
(* A value of type T is two words (lo, hi); writing it takes two steps,    *)
(* and a read that falls between them is a torn read.                      *)
(***************************************************************************)
EXTENDS Integers, Sequences, FiniteSets, TLC

\* ---- bounds ----
MaxSubs == 2

\* the consumer threads
Consumers == {"c1", "c2"}

\* ---- program constants ----
Slots == {"a", "b"}
None == "nil"
PrevCap == 1
InitVal == 0

VARIABLES
    slots,      \* db.a, db.b: slot -> [lo, hi]
    back,       \* db.back
    front,      \* db.front
    next,       \* db.next (atomic.Value holding *T)
    prev,       \* db.prev (chan *T, capacity 1)
    ppc,        \* producer position: "idle", "back" (inside Back), "write"
    ctx,        \* context of the Back call in progress: "live" / "cancelled"
    j,          \* pointer the producer got from Back and may write through
    pev,        \* the producer's last completed Back or Ready call
    cancelled,  \* a Back call failed and no Back has succeeded since
    subs,       \* history: submissions, in order: [slot, val]
    cs,         \* per consumer: position, locals and result of its call
    nwins       \* history: number of Next calls returned with changed=true

dbvars == <<slots, back, front, next, prev>>
pvars == <<ppc, ctx, j, pev, cancelled, subs>>
cvars == <<cs, nwins>>
vars == <<slots, back, front, next, prev, ppc, ctx, j, pev, cancelled,
          subs, cs, nwins>>

Val(v) == [lo |-> v, hi |-> v]

\* a consumer between calls, before its first call
IdleCall == [pc |-> "idle", op |-> "none", nxt |-> None, old |-> None,
             ptr |-> None, seen |-> 0, val |-> Val(InitVal),
             torn |-> FALSE, known |-> TRUE]

\* New(a, b)
Init ==
    /\ slots = [s \in Slots |-> Val(InitVal)]
    /\ back = "a"
    /\ front = "b"
    /\ next = None
    /\ prev = <<>>
    /\ ppc = "idle"
    /\ ctx = "live"
    /\ j = None
    /\ pev = "none"
    /\ cancelled = FALSE
    /\ subs = <<>>
    /\ cs = [c \in Consumers |-> IdleCall]
    /\ nwins = 0

\* ------------------------------------------------------------------------
\* Producer: Back(ctx), writes through the returned pointer, Ready()
\* ------------------------------------------------------------------------

\* the producer calls Back with a context that is live or already cancelled
BackBegin(cx) ==
    /\ ppc = "idle"
    /\ ppc' = "back"
    /\ ctx' = cx
    /\ UNCHANGED <<dbvars, j, pev, cancelled, subs, cvars>>

\* the context of the Back call in progress is cancelled from outside
CtxCancel ==
    /\ ppc = "back"
    /\ ctx = "live"
    /\ ctx' = "cancelled"
    /\ UNCHANGED <<dbvars, ppc, j, pev, cancelled, subs, cvars>>

\* Back returning the front pointer in place of db.back
BackFastFront ==
    /\ ppc = "back"
    /\ back # None
    /\ ppc' = "idle"
    /\ j' = front
    /\ pev' = IF pev \in {"Back", "BackAgain"} THEN "BackAgain" ELSE "Back"
    /\ cancelled' = FALSE
    /\ UNCHANGED <<dbvars, ctx, subs, cvars>>

\* Back testing the context first: a cancelled context fails the call even
\* when db.back != nil
BackFastChecksCtx ==
    /\ ppc = "back"
    /\ back # None
    /\ ppc' = "idle"
    /\ IF ctx = "cancelled"
       THEN /\ j' = None
            /\ pev' = "BackErr"
            /\ cancelled' = TRUE
       ELSE /\ j' = back
            /\ pev' = IF pev \in {"Back", "BackAgain"}
                      THEN "BackAgain" ELSE "Back"
            /\ cancelled' = FALSE
    /\ UNCHANGED <<dbvars, ctx, subs, cvars>>

\* Back, db.back != nil: return db.back, nil (the context is not consulted;
\* ctx stays that of this call until the next Back call)
BackFast ==
    /\ ppc = "back"
    /\ back # None
    /\ ppc' = "idle"
    /\ j' = back
    /\ pev' = IF pev \in {"Back", "BackAgain"} THEN "BackAgain" ELSE "Back"
    /\ cancelled' = FALSE
    /\ UNCHANGED <<dbvars, ctx, subs, cvars>>

\* Back, db.back == nil, select case db.back = <-db.prev
BackRecv ==
    /\ ppc = "back"
    /\ back = None
    /\ prev # <<>>
    /\ back' = Head(prev)
    /\ prev' = Tail(prev)
    /\ ppc' = "idle"
    /\ ctx' = "live"
    /\ j' = Head(prev)
    /\ pev' = IF cancelled THEN "BackRetry" ELSE "BackRecv"
    /\ cancelled' = FALSE
    /\ UNCHANGED <<slots, front, next, subs, cvars>>

\* the cancelled Back drains the reclaim channel before it returns the error
BackCancelDrains ==
    /\ ppc = "back"
    /\ back = None
    /\ ctx = "cancelled"
    /\ ppc' = "idle"
    /\ ctx' = "live"
    /\ j' = None
    /\ pev' = "BackErr"
    /\ cancelled' = TRUE
    /\ prev' = <<>>
    /\ UNCHANGED <<slots, back, front, next, subs, cvars>>

\* Back, db.back == nil, select case <-ctx.Done(): return nil, ctx.Err()
BackCancel ==
    /\ ppc = "back"
    /\ back = None
    /\ ctx = "cancelled"
    /\ ppc' = "idle"
    /\ ctx' = "live"
    /\ j' = None
    /\ pev' = "BackErr"
    /\ cancelled' = TRUE
    /\ UNCHANGED <<dbvars, subs, cvars>>

\* the value the producer writes next: one fresh value per submission
NextValue == Len(subs) + 1

\* *j = v, first word
WriteLo ==
    /\ ppc = "idle"
    /\ j # None
    /\ slots' = [slots EXCEPT ![j].lo = NextValue]
    /\ ppc' = "write"
    /\ UNCHANGED <<back, front, next, prev, ctx, j, pev, cancelled, subs,
                   cvars>>

\* *j = v, second word
WriteHi ==
    /\ ppc = "write"
    /\ slots' = [slots EXCEPT ![j].hi = NextValue]
    /\ ppc' = "idle"
    /\ UNCHANGED <<back, front, next, prev, ctx, j, pev, cancelled, subs,
                   cvars>>

\* Ready without "db.back = nil": the producer stays Writable
ReadyKeepsBack ==
    /\ ppc = "idle"
    /\ IF back # None
       THEN /\ Len(subs) < MaxSubs
            /\ next' = back
            /\ subs' = Append(subs, [slot |-> back, val |-> slots[back]])
            /\ pev' = "Ready"
       ELSE /\ pev' = "ReadyNoop"
            /\ UNCHANGED <<next, subs>>
    /\ j' = None
    /\ UNCHANGED <<slots, back, front, prev, ppc, ctx, cancelled, cvars>>

\* Ready without the "if db.back != nil" test: db.back is stored as it is
ReadyAlways ==
    /\ ppc = "idle"
    /\ Len(subs) < MaxSubs
    /\ next' = back
    /\ back' = None
    /\ subs' = IF back # None
               THEN Append(subs, [slot |-> back, val |-> slots[back]])
               ELSE subs
    /\ pev' = IF back # None THEN "Ready" ELSE "ReadyNoop"
    /\ j' = None
    /\ UNCHANGED <<slots, front, prev, ppc, ctx, cancelled, cvars>>

\* Ready(): if db.back != nil { db.next.Store(db.back); db.back = nil }
\* After Ready the producer no longer writes through the old pointer.
Ready ==
    /\ ppc = "idle"
    /\ IF back # None
       THEN /\ Len(subs) < MaxSubs
            /\ next' = back
            /\ back' = None
            /\ subs' = Append(subs, [slot |-> back, val |-> slots[back]])
            /\ pev' = "Ready"
       ELSE /\ pev' = "ReadyNoop"
            /\ UNCHANGED <<next, back, subs>>
    /\ j' = None
    /\ UNCHANGED <<slots, front, prev, ppc, ctx, cancelled, cvars>>

\* ------------------------------------------------------------------------
\* Consumers: Front() and Next()
\* ------------------------------------------------------------------------

\* a consumer is between calls; the result of its last call is still in cs
Between(c) == cs[c].pc \in {"idle", "ret"}

\* NextSwap with a Load in place of the Swap: the pending cell is not cleared
NextSwapNoClear(c) ==
    /\ Between(c)
    /\ cs' = [cs EXCEPT ![c] = [IdleCall EXCEPT
                 !.pc = IF next = None THEN "n_load" ELSE "n_eval",
                 !.op = "Next",
                 !.nxt = next,
                 !.seen = Len(subs)]]
    /\ UNCHANGED <<slots, back, front, next, prev, pvars, nwins>>

\* NextSwap without the "if next != nil" test: the old front is always pushed
NextSwapAlways(c) ==
    /\ Between(c)
    /\ cs' = [cs EXCEPT ![c] = [IdleCall EXCEPT
                 !.pc = "n_eval",
                 !.op = "Next",
                 !.nxt = next,
                 !.seen = Len(subs)]]
    /\ next' = None
    /\ UNCHANGED <<slots, back, front, prev, pvars, nwins>>

\* Next: next := db.next.Swap((*T)(nil)).(*T); if next != nil
\* seen is the number of submissions made before the swap: when the swap
\* takes a slot, it is the index of the submission taken (a Store
\* overwrites the cell, so a non-empty cell holds the latest submission)
NextSwap(c) ==
    /\ Between(c)
    /\ cs' = [cs EXCEPT ![c] = [IdleCall EXCEPT
                 !.pc = IF next = None THEN "n_load" ELSE "n_eval",
                 !.op = "Next",
                 !.nxt = next,
                 !.seen = Len(subs)]]
    /\ next' = None
    /\ UNCHANGED <<slots, back, front, prev, pvars, nwins>>

\* Next: db.prev <- db.front, the operand db.front is evaluated
NextEvalFront(c) ==
    /\ cs[c].pc = "n_eval"
    /\ cs' = [cs EXCEPT ![c].pc = "n_send", ![c].old = front]
    /\ UNCHANGED <<dbvars, pvars, nwins>>

\* the send pushing the adopted slot in place of the old front
NextSendAdopted(c) ==
    /\ cs[c].pc = "n_send"
    /\ Len(prev) < PrevCap
    /\ prev' = Append(prev, cs[c].nxt)
    /\ cs' = [cs EXCEPT ![c].pc = "n_assign", ![c].old = None]
    /\ UNCHANGED <<slots, back, front, next, pvars, nwins>>

\* the send dropped: the old front is not pushed onto the reclaim channel
NextSendDrop(c) ==
    /\ cs[c].pc = "n_send"
    /\ cs' = [cs EXCEPT ![c].pc = "n_assign", ![c].old = None]
    /\ UNCHANGED <<dbvars, pvars, nwins>>

\* Next: db.prev <- db.front, the send; blocks while the channel is full
NextSend(c) ==
    /\ cs[c].pc = "n_send"
    /\ Len(prev) < PrevCap
    /\ prev' = Append(prev, cs[c].old)
    /\ cs' = [cs EXCEPT ![c].pc = "n_assign", ![c].old = None]
    /\ UNCHANGED <<slots, back, front, next, pvars, nwins>>

\* Next: db.front = next
NextAssign(c) ==
    /\ cs[c].pc = "n_assign"
    /\ front' = cs[c].nxt
    /\ cs' = [cs EXCEPT ![c].pc = "n_load"]
    /\ UNCHANGED <<slots, back, next, prev, pvars, nwins>>

\* Next: return *db.front, ..., the pointer db.front is loaded
NextLoad(c) ==
    /\ cs[c].pc = "n_load"
    /\ cs' = [cs EXCEPT ![c].pc = "rd", ![c].ptr = front]
    /\ UNCHANGED <<dbvars, pvars, nwins>>

\* Front: return *db.front, the pointer db.front is loaded
FrontLoad(c) ==
    /\ Between(c)
    /\ cs' = [cs EXCEPT ![c] = [IdleCall EXCEPT
                 !.pc = "rd", !.op = "Front", !.ptr = front]]
    /\ UNCHANGED <<dbvars, pvars, nwins>>

\* the producer is between the two words of a write to slot s
WriteInProgress(s) == ppc = "write" /\ j = s

\* values that were complete in a slot at construction or at a Ready call
Published(v) ==
    \/ v = Val(InitVal)
    \/ \E k \in 1..Len(subs) : subs[k].val = v /\ v.lo = v.hi

\* Front and Next: the copy of *ptr and the return
ReadRet(c) ==
    /\ cs[c].pc = "rd"
    /\ LET v == slots[cs[c].ptr]
       IN cs' = [cs EXCEPT ![c].pc = "ret",
                           ![c].val = v,
                           ![c].torn = WriteInProgress(cs[c].ptr),
                           ![c].known = Published(v)]
    /\ nwins' = IF cs[c].nxt # None /\ nwins <= MaxSubs
                THEN nwins + 1 ELSE nwins
    /\ UNCHANGED <<dbvars, pvars>>

\* ------------------------------------------------------------------------

Next ==
    \/ \E cx \in {"live", "cancelled"} : BackBegin(cx)
    \/ CtxCancel
    \/ BackFast
    \/ BackRecv
    \/ BackCancel
    \/ WriteLo
    \/ WriteHi
    \/ Ready
    \/ \E c \in Consumers : NextSwap(c)
    \/ \E c \in Consumers : NextEvalFront(c)
    \/ \E c \in Consumers : NextSend(c)
    \/ \E c \in Consumers : NextAssign(c)
    \/ \E c \in Consumers : NextLoad(c)
    \/ \E c \in Consumers : FrontLoad(c)
    \/ \E c \in Consumers : ReadRet(c)

Spec == Init /\ [][Next]_vars

TypeOK ==
    /\ back \in Slots \cup {None}
    /\ front \in Slots
    /\ next \in Slots \cup {None}
    /\ Len(prev) <= PrevCap

\* ------------------------------------------------------------------------
\* Properties
\* ------------------------------------------------------------------------

\* consumer c has returned from Front or Next and not started another call
Returned(c) == cs[c].pc = "ret"

\* consumer c is inside a Next call that took a slot from the pending cell
Taking(c) == cs[c].nxt # None /\ cs[c].pc \in {"n_eval", "n_send", "n_assign", "n_load", "rd"}

\* consumer c is inside such a call and has pushed the old front onto prev
Pushed(c) == cs[c].nxt # None /\ cs[c].pc \in {"n_assign", "n_load", "rd"}

\* C1: no torn reads: every value returned by Front or Next is the initial
\* value or a value that was complete in its slot at a Ready call, and no
\* read of a slot happens while the producer is in the middle of writing
\* that slot.
C1_NoTornReads ==
    \A c \in Consumers : Returned(c) => ~cs[c].torn /\ cs[c].known

\* C2: in every state, also inside a Next call in progress, back is none
\* or back and front are different slots.
C2_BackFrontDistinct == back # None => back # front

\* C3: single-winner advance: every submission is, at any moment, either
\* still in the pending cell, or held by exactly one Next call in progress,
\* or was returned with changed = true by exactly one Next call; no two
\* Next calls hold the same submission.
C3_SingleWinner ==
    /\ nwins + Cardinality({c \in Consumers : Taking(c)})
             + (IF next # None THEN 1 ELSE 0) = Len(subs)
    /\ \A c, d \in Consumers :
          (c # d /\ cs[c].nxt # None /\ cs[d].nxt # None)
             => cs[c].seen # cs[d].seen

\* C3 witness: both submissions were adopted, one consumer has just returned
\* changed = true and the other changed = false against the same submission
C3_Witness ==
    /\ nwins >= 2
    /\ \E c, d \in Consumers :
          /\ Returned(c) /\ cs[c].nxt # None
          /\ Returned(d) /\ cs[d].op = "Next" /\ cs[d].nxt = None
          /\ cs[d].seen = cs[c].seen

\* C4: a Next call that returns changed = false after its swap found the
\* cell emptied by the winner of the latest submission, and that returns
\* before any further submission, returns the value the winner adopted.
C4_LosersSeeAdopted ==
    \A c \in Consumers :
       (Returned(c) /\ cs[c].op = "Next" /\ cs[c].nxt = None
           /\ cs[c].seen >= 1 /\ cs[c].seen = Len(subs))
          => cs[c].val = subs[cs[c].seen].val

\* C5: a Next call that returns changed = true returns the value that the
\* adopted slot held at the Ready call that submitted it.
C5_ChangedReturnsPublished ==
    \A c \in Consumers :
       (Returned(c) /\ cs[c].nxt # None) => cs[c].val = subs[cs[c].seen].val

SubmittedBackReturns == ppc = "back" /\ back = None /\ ppc' = "idle"

\* C7: a Back call in the Submitted state returns the error exactly through
\* the cancelled context, with no slot and with slots, back, front, the
\* pending cell and the reclaim channel unchanged; when the channel is
\* empty that is its only return; and a Back call with a live context made
\* after a failed one returns the slot at the head of the channel.
C7_CancelLeavesState ==
    [][ SubmittedBackReturns =>
          /\ prev = <<>> => (pev' = "BackErr" /\ ctx = "cancelled")
          /\ pev' = "BackErr" =>
                (j' = None /\ back' = None /\ UNCHANGED dbvars)
          /\ (cancelled /\ ctx = "live") =>
                (/\ pev' = "BackRetry"
                 /\ back' = Head(prev) /\ j' = Head(prev)
                 /\ prev' = Tail(prev)
                 /\ UNCHANGED <<slots, front, next>>) ]_vars

\* C7 witness: a Back call failed on cancellation, a Next adopted the
\* submission, and the next Back call returned the reclaimed slot
C7_Witness == pev = "BackRetry" /\ back # None /\ j = back /\ nwins >= 1

\* a Back call made in the Writable state returns in this step
WritableBackReturns == ppc = "back" /\ back # None /\ ppc' = "idle"

\* C8: a Back call in the Writable state returns db.back with no error and
\* changes no state, it returns the slot the previous Back call returned
\* when no Ready came in between, and no step of a consumer changes back
\* while the producer is Writable.
C8_BackIdempotent ==
    [][ /\ WritableBackReturns =>
             /\ j' = back
             /\ pev' \in {"Back", "BackAgain"}
             /\ UNCHANGED dbvars
             /\ j # None => j' = j
        /\ (back # None /\ back' # back) => (pev' = "Ready" /\ back' = None)
      ]_vars

\* C8 witness: two Back calls in a row with a concurrent Next in progress
C8_Witness ==
    /\ pev = "BackAgain"
    /\ j = back
    /\ \E c \in Consumers : cs[c].pc = "n_load"

\* the producer calls Ready in this step
ReadyCalled == ppc = "idle" /\ ppc' = "idle" /\ j' = None /\ cs' = cs

\* C9: a Ready call made when back = none changes neither the slots, back,
\* front, the pending cell, the reclaim channel nor the submissions made.
C9_ReadyIdempotent ==
    [][ (ReadyCalled /\ back = None) =>
           (UNCHANGED dbvars /\ UNCHANGED subs /\ pev' = "ReadyNoop") ]_vars

\* C9 witness: Ready was repeated after a Next had emptied the pending cell
C9_Witness ==
    /\ pev = "ReadyNoop"
    /\ back = None
    /\ next = None
    /\ Len(subs) >= 1

\* C10: the reclaim channel never holds more than one slot and is empty
\* whenever a Next call is about to push the old front onto it.
C10_NextNeverBlocks ==
    /\ Len(prev) <= PrevCap
    /\ \A c \in Consumers : cs[c].pc \in {"n_eval", "n_send"} => prev = <<>>

\* C10 witness: a Next call of the second publish cycle is at its send
C10_Witness ==
    \E c \in Consumers : cs[c].pc = "n_send" /\ cs[c].seen >= 2

\* consumer c takes, in this step, a step of a Next call whose swap found
\* the pending cell empty
EmptyNextStep(c) ==
    cs'[c] # cs[c] /\ cs'[c].op = "Next" /\ cs'[c].nxt = None

\* C11: no step of a Next call that found the pending cell empty changes
\* the slots, back, front, the pending cell or the reclaim channel; the call
\* loads the current front pointer and returns the value of that slot with
\* changed = false.
C11_EmptyNextFrame ==
    [][ \A c \in Consumers : EmptyNextStep(c) =>
           /\ UNCHANGED dbvars
           /\ cs'[c].pc \in {"n_load", "rd", "ret"}
           /\ cs'[c].pc = "rd" => cs'[c].ptr = front
           /\ cs'[c].pc = "ret" => cs'[c].val = slots[cs[c].ptr] ]_vars

\* C11 witness: a Next call has returned changed = false with the value of
\* the front slot, after a submission had been adopted
C11_Witness ==
    \E c \in Consumers :
       /\ Returned(c) /\ cs[c].op = "Next" /\ cs[c].nxt = None
       /\ cs[c].ptr = front /\ cs[c].val = slots[front]
       /\ nwins >= 1

\* ------------------------------------------------------------------------
\* Sequential use: one call at a time, no two calls overlap
\* ------------------------------------------------------------------------

\* no consumer other than c is inside a call
OthersBetween(c) == \A d \in Consumers \ {c} : Between(d)

\* a step of the producer, taken while no consumer is inside a call
SeqProducer ==
    /\ \A c \in Consumers : Between(c)
    /\ \/ \E cx \in {"live", "cancelled"} : BackBegin(cx)
       \/ CtxCancel
       \/ BackFast
       \/ BackRecv
       \/ BackCancel
       \/ WriteLo
       \/ WriteHi
       \/ Ready

\* a step of consumer c, taken while nobody else is inside a call
SeqConsumer(c) ==
    /\ ppc = "idle"
    /\ OthersBetween(c)
    /\ \/ NextSwap(c)
       \/ NextEvalFront(c)
       \/ NextSend(c)
       \/ NextAssign(c)
       \/ NextLoad(c)
       \/ FrontLoad(c)
       \/ ReadRet(c)

SeqNext == SeqProducer \/ \E c \in Consumers : SeqConsumer(c)

SeqSpec == Init /\ [][SeqNext]_vars

\* C12: round trip, one call at a time.  After New(0, 0) the first Back
\* returns slot a; after the producer's write and Ready, the Next that takes
\* the submission returns (the written value, true); a further Next with no
\* new Ready finds the cell empty and returns (the same value, false); the
\* reclaim channel then holds slot b, so Back returns at once, and it
\* returns slot b: the front before the swap, not a, still holding 0.
\* (The producer of the model writes 1 where the scenario writes 42.)
C12_RoundTrip ==
    /\ [](/\ (pev \in {"Back", "BackAgain"} /\ subs = <<>>) => j = "a"
          /\ Len(subs) >= 1 => subs[1].slot = "a"
          /\ \A c \in Consumers :
                (Returned(c) /\ cs[c].op = "Next" /\ cs[c].seen = 1)
                   => /\ cs[c].val = subs[1].val
                      /\ cs[c].ptr = "a"
                      /\ ~cs[c].torn
          /\ (Len(subs) = 1 /\ nwins >= 1 /\ back = None)
                => prev = <<"b">>)
    /\ [][ (SubmittedBackReturns /\ Len(subs) = 1 /\ pev' # "BackErr") =>
              /\ j' = "b"
              /\ back' = "b"
              /\ j' # subs[1].slot
              /\ slots[j'] = Val(InitVal) ]_vars

\* C12 witness: the end of the round trip: the written value was returned
\* with changed = false by the second Next and Back has returned slot b
C12_Witness ==
    /\ Len(subs) = 1
    /\ subs[1].val = Val(1)
    /\ nwins = 1
    /\ pev = "BackRecv"
    /\ j = "b"
    /\ slots["b"] = Val(InitVal)
    /\ front = "a"
    /\ \E c \in Consumers :
          /\ Returned(c) /\ cs[c].op = "Next" /\ cs[c].nxt = None
          /\ cs[c].val = Val(1)

\* the producer's Ready call stores a new submission in this step
ReadyStores == ReadyCalled /\ Len(subs') = Len(subs) + 1

\* C13, as stated: a Ready call made while an earlier submission is still
\* in the pending cell (no Next in between) overwrites the cell with a new
\* submission.
C13_SecondReadyOverwrites ==
    [][ (ReadyCalled /\ next # None /\ Len(subs) < MaxSubs) =>
           (ReadyStores /\ next' # None) ]_vars

\* C13, amended: the pending cell is never overwritten.  A Ready call made
\* while a submission is pending is a no-op; Ready stores only into an
\* empty cell, when every earlier submission has been taken out of it by a
\* Next call; and every submission is in the cell, held by one Next call in
\* progress, or was returned with changed = true once.
C13_NoOverwrite ==
    /\ [][ /\ (ReadyCalled /\ next # None) => UNCHANGED <<dbvars, subs>>
           /\ ReadyStores =>
                 /\ next = None
                 /\ nwins + Cardinality({c \in Consumers : Taking(c)})
                       = Len(subs)
                 /\ next' = back /\ back' = None ]_vars
    /\ [](nwins + Cardinality({c \in Consumers : Taking(c)})
             + (IF next # None THEN 1 ELSE 0) = Len(subs))

\* C13 witness: value 1 was published and adopted, then value 2 was
\* published and is pending
C13_Witness ==
    /\ Len(subs) = 2
    /\ subs[1].val = Val(1)
    /\ subs[2].val = Val(2)
    /\ next = subs[2].slot
    /\ nwins = 1

\* ------------------------------------------------------------------------
\* The feeder and the parallel Next callers of BenchmarkDoubleBuffer/Next:
\* a producer whose context is not cancelled, consumers that call Next,
\* every thread scheduled again and again
\* ------------------------------------------------------------------------

LiveProducer ==
    \/ BackBegin("live")
    \/ BackFast
    \/ BackRecv
    \/ WriteLo
    \/ WriteHi
    \/ Ready

LiveConsumer(c) ==
    \/ NextSwap(c)
    \/ NextEvalFront(c)
    \/ NextSend(c)
    \/ NextAssign(c)
    \/ NextLoad(c)
    \/ ReadRet(c)

LiveNext == LiveProducer \/ \E c \in Consumers : LiveConsumer(c)

LiveSpec ==
    /\ Init
    /\ [][LiveNext]_vars
    /\ \A c \in Consumers : WF_vars(LiveConsumer(c))
    /\ WF_vars(BackRecv)

\* the producer is inside Back, waiting on the reclaim channel
BackWaiting == ppc = "back" /\ back = None

\* C14: whenever the producer waits in Back with a context that is never
\* cancelled and the consumers keep taking steps of Next calls, Back
\* eventually returns a slot.
C14_BackProgress == BackWaiting ~> (ppc = "idle" /\ back # None)

\* C14 witness: the producer has waited in Back a second time
C14_Witness == BackWaiting /\ Len(subs) >= 2 /\ prev = <<>>

\* C15: a Next call that took a slot from the pending cell pushes onto the
\* reclaim channel the slot being vacated, never the slot it has adopted.
C15_RoleSwapPairing ==
    \A c \in Consumers :
       cs[c].pc = "n_send" => cs[c].old # cs[c].nxt

\* C16: front always refers to one of the two slots of New and back is none
\* or one of them; until the producer has completed a call and a Next has
\* taken a submission, front is the slot of the second argument (b) and
\* back the slot of the first (a).
C16_FrontDefined ==
    /\ front \in Slots
    /\ back \in Slots \cup {None}
    /\ \A c \in Consumers : cs[c].pc \in {"rd", "ret"} => cs[c].ptr \in Slots
    /\ (pev = "none" /\ subs = <<>>) => (front = "b" /\ back = "a")

\* C16 witness: the roles have been swapped: front is a and back is b
C16_Witness == front = "a" /\ back = "b" /\ nwins >= 1

\* consumer c has taken a slot from the pending cell and not yet pushed
Unpushed(c) == cs[c].pc \in {"n_eval", "n_send"}

\* the number of places that hold the circulating slot
Tokens ==
    (IF back # None THEN 1 ELSE 0)
    + (IF next # None THEN 1 ELSE 0)
    + Cardinality({c \in Consumers : Unpushed(c)})
    + Len(prev)

\* C17: exactly one of these holds in every state: back is non-none; the
\* pending cell is non-empty; a Next call has taken a slot from the pending
\* cell and not yet pushed onto the reclaim channel; the reclaim channel
\* holds a slot.
C17_SingleToken == Tokens = 1

\* C17 witness: in the second cycle the slot is with a Next call that has
\* evaluated the old front and not yet pushed it
C17_Witness ==
    /\ back = None /\ next = None /\ prev = <<>>
    /\ \E c \in Consumers : cs[c].pc = "n_send" /\ cs[c].seen = 2 /\ nwins = 1

\* no consumer is inside a Next call
NoNextInProgress ==
    \A c \in Consumers : Between(c) \/ cs[c].op = "Front"

\* the number of submissions adopted once no Next call is in progress
Adopted == Len(subs) - (IF next # None THEN 1 ELSE 0)

\* the slot on the producer's side: in back, the pending cell or the
\* reclaim channel
ProducerSlot ==
    IF back # None THEN back
    ELSE IF next # None THEN next
    ELSE IF prev # <<>> THEN Head(prev)
    ELSE None

\* C18: front never regresses: whenever no Next call is in progress and a
\* submission has been adopted, front is the slot of the most recently
\* adopted submission and the slot on the producer's side (back, pending
\* cell or reclaim channel) is the other slot.
C18_FrontNeverRegresses ==
    (NoNextInProgress /\ Adopted >= 1) =>
       /\ front = subs[Adopted].slot
       /\ ProducerSlot # front

\* ------------------------------------------------------------------------
\* One consumer thread: its Front and Next calls never overlap each other
\* ------------------------------------------------------------------------

TheConsumer == "c1"

OneNext ==
    \/ \E cx \in {"live", "cancelled"} : BackBegin(cx)
    \/ CtxCancel
    \/ BackFast
    \/ BackRecv
    \/ BackCancel
    \/ WriteLo
    \/ WriteHi
    \/ Ready
    \/ NextSwap(TheConsumer)
    \/ NextEvalFront(TheConsumer)
    \/ NextSend(TheConsumer)
    \/ NextAssign(TheConsumer)
    \/ NextLoad(TheConsumer)
    \/ FrontLoad(TheConsumer)
    \/ ReadRet(TheConsumer)

OneSpec == Init /\ [][OneNext]_vars

\* C19: with a single consumer thread no Front or Next call copies a slot
\* while the producer is in the middle of writing it, and every value
\* returned is the initial value or a value complete at a Ready call.
C19_SingleConsumerSafe ==
    /\ Returned(TheConsumer) =>
          (~cs[TheConsumer].torn /\ cs[TheConsumer].known)
    /\ cs[TheConsumer].pc = "rd" => ~WriteInProgress(cs[TheConsumer].ptr)

\* C19 witness: the producer has received the old front and is writing it
\* while the consumer's Next has not yet reassigned front
C19_Witness ==
    /\ cs[TheConsumer].pc = "n_assign"
    /\ ppc = "write"
    /\ j = front
    /\ back = front

\* a Back call returns in this step
BackReturns == ppc = "back" /\ ppc' = "idle"

\* C20: a Back call made when back is non-none returns that slot with no
\* error whatever its context; a Back call returns the error only when back
\* is none and its context is cancelled, and then it returns no slot.
C20_CtxOnlyWhenSubmitted ==
    [][ BackReturns =>
          /\ back # None =>
                (pev' \in {"Back", "BackAgain"} /\ j' = back /\ back' = back)
          /\ pev' = "BackErr" =>
                (back = None /\ ctx = "cancelled" /\ j' = None) ]_vars

\* C20 witness: a Back call with a cancelled context has returned the
\* writable slot
C20_Witness ==
    /\ ppc = "idle"
    /\ pev \in {"Back", "BackAgain"}
    /\ ctx = "cancelled"
    /\ back # None
    /\ j = back

====
